---- MODULE Spec2Model ----
(***************************************************************************)
(* Model of the voxel -> brick conversion engine of UofTHacks13:           *)
(*   backend/app/services/master_builder.py  (MasterBuilder)               *)
(*   backend/app/services/part_discovery.py  (PartDiscoveryService)        *)
(* The Rebrickable client (app/services/rebrickable_api.py) is not part of *)
(* the available sources; it is modelled as the Catalog Port of the        *)
(* specification: a deterministic, memoised oracle whose answers are       *)
(* chosen the first time a question is asked.                              *)
(***************************************************************************)
EXTENDS Integers, Sequences, FiniteSets, TLC

\* ------------------------------------------------------------------ bounds
MaxVoxels == 2          \* longest voxel list handed to process_voxels
MaxRawVoxels == 2       \* longest voxel list that may hold malformed voxels
MaxFaults == 1          \* (part, color) pairs the port answers with no / error
MaxBricks == 2          \* bricks registered through register_brick
MaxLayer == 3           \* highest top layer the engineering rules are applied to
MaxDeltas == 3          \* scene deltas recorded by the orchestrator

XS == -1 .. 1
YS == -1 .. 0
ZS == 0 .. 1

Red == "#FF0000"
Blue == "#0000FF"
Colors == {Red, Blue}

\* ------------------------------------------------------------ input values
\* A coordinate as found in a voxel dict: a Python int, a Python float
\* (v counts halves, so v = 3 is 1.5) or a non-numeric string.
PyIntVal(n) == [t |-> "int", v |-> n]
PyFloatVal(h) == [t |-> "float", v |-> h]
PyTextVal == [t |-> "text", v |-> 0]

\* int(value): identity on ints, truncation toward zero on floats,
\* ValueError on a non-numeric string.
IntRaises(r) == r.t = "text"

PyInt(r) ==
    IF r.t = "float"
    THEN (IF r.v >= 0 THEN r.v \div 2 ELSE -((-r.v) \div 2))
    ELSE r.v

IsInteger(r) == r.t = "int" \/ (r.t = "float" /\ r.v % 2 = 0)

MkVoxel(x, y, z, c) ==
    [x |-> PyIntVal(x), y |-> PyIntVal(y), z |-> PyIntVal(z), hex_color |-> c]

WellFormedVoxels == {MkVoxel(x, y, z, c) : x \in XS, y \in YS, z \in ZS, c \in Colors}

RawCoords == {PyIntVal(0), PyIntVal(1), PyFloatVal(1), PyFloatVal(-1), PyTextVal}

RawVoxels ==
    {[x |-> rx, y |-> PyIntVal(0), z |-> rz, hex_color |-> c] :
        rx \in RawCoords, rz \in {PyIntVal(0), PyFloatVal(3)}, c \in {Red, ""}}

SeqsUpTo(S, n) == UNION {[1 .. k -> S] : k \in 0 .. n}

\* The voxel lists of the model: every list of at most MaxVoxels well-formed
\* voxels whose first voxel is Red (the two colors are interchangeable).
VoxelLists ==
    {d \in SeqsUpTo(WellFormedVoxels, MaxVoxels) : d = << >> \/ d[1].hex_color = Red}

Malformed(v) ==
    \/ ~IsInteger(v.x) \/ ~IsInteger(v.y) \/ ~IsInteger(v.z)
    \/ v.hex_color = ""

\* ---------------------------------------------------------------- catalog
\* Part numbers are kept as their underscore-separated segments, so that the
\* inventory key f"{part_id}_{color_id}" and its split("_") can be computed.
P3001 == <<"3001">>
P3003 == <<"3003">>
P3004 == <<"3004">>
P3005 == <<"3005">>

PartDict(num, w, h) == [part_num |-> num, width |-> w, height |-> h, area |-> w * h]

_get_fallback_parts ==
    << PartDict(P3001, 4, 2), PartDict(P3003, 2, 2),
       PartDict(P3004, 2, 1), PartDict(P3005, 1, 1) >>

\* What Rebrickable's part search may answer (fetch_parts): a list of raw
\* parts carrying their stud dimensions, in catalog order, or an error.
RawPart(num, w, h) == [part_num |-> num, width |-> w, height |-> h]

Listings ==
    { [ok |-> FALSE, parts |-> << >>],
      [ok |-> TRUE, parts |-> << RawPart(P3005, 1, 1), RawPart(P3004, 2, 1),
                                 RawPart(P3003, 2, 2) >>] }

\* The parts the port may refuse or fail on: those small enough to be placed
\* on the grid XS x YS with at most MaxVoxels voxels.
FaultyParts == {P3004, P3005}

\* get_closest_lego_color: deterministic nearest match of the port.
get_closest_lego_color(hex) ==
    CASE hex = Red -> 4
      [] hex = Blue -> 1
      [] OTHER -> 0

\* --------------------------------------------------------- python helpers

CellLess(a, b) == a[1] < b[1] \/ (a[1] = b[1] /\ a[2] < b[2])

MinCell(S) == CHOOSE a \in S : \A b \in S : a = b \/ CellLess(a, b)

\* sorted(remaining) on a set of (x, y) tuples
RECURSIVE SortedCells(_)
SortedCells(S) ==
    IF S = {} THEN << >>
    ELSE LET m == MinCell(S) IN <<m>> \o SortedCells(S \ {m})

Min(S) == CHOOSE a \in S : \A b \in S : a <= b
Max(S) == CHOOSE a \in S : \A b \in S : a >= b

\* list.sort(key=area, reverse=True): stable, largest area first
RECURSIVE InsertByAreaDesc(_, _)
InsertByAreaDesc(sorted, p) ==
    IF sorted = << >> THEN <<p>>
    ELSE IF Head(sorted).area >= p.area
         THEN <<Head(sorted)>> \o InsertByAreaDesc(Tail(sorted), p)
         ELSE <<p>> \o sorted

SortByArea_None(parts) == parts

RECURSIVE SortByAreaDesc(_)
SortByAreaDesc(parts) ==
    IF parts = << >> THEN << >>
    ELSE InsertByAreaDesc(SortByAreaDesc(SubSeq(parts, 1, Len(parts) - 1)),
                          parts[Len(parts)])

\* "Remove duplicates": keep the first dict of every part_num
RECURSIVE UniqueParts(_, _)
UniqueParts(parts, seen) ==
    IF parts = << >> THEN << >>
    ELSE IF Head(parts).part_num \in seen
         THEN UniqueParts(Tail(parts), seen)
         ELSE <<Head(parts)>> \o UniqueParts(Tail(parts), seen \cup {Head(parts).part_num})

\* ------------------------------------------------- PartDiscoveryService
\* analyze_voxel_shape on a non-empty set of (x, y) cells.  The circle test
\* |distance - radius| < 0.5 is computed on doubled coordinates:
\* (R - 1)^2 < D2 < (R + 1)^2 with R = min(width, height) = 2 * radius and
\* D2 = 4 * distance^2.
analyze_voxel_shape(voxels) ==
    LET xs == {v[1] : v \in voxels}
        ys == {v[2] : v \in voxels}
        min_x == Min(xs)
        max_x == Max(xs)
        min_y == Min(ys)
        max_y == Max(ys)
        width == max_x - min_x + 1
        height == max_y - min_y + 1
        area == Cardinality(voxels)
        lo == IF width < height THEN width ELSE height
        hi == IF width < height THEN height ELSE width
        D2(v) == (2 * v[1] - (min_x + max_x)) * (2 * v[1] - (min_x + max_x))
                 + (2 * v[2] - (min_y + max_y)) * (2 * v[2] - (min_y + max_y))
        round_score == Cardinality({v \in voxels :
                          /\ D2(v) > (lo - 1) * (lo - 1)
                          /\ D2(v) < (lo + 1) * (lo + 1)})
        is_rectangular == (area = width * height)
        is_round == 10 * round_score > 7 * area
    IN  [ is_round |-> is_round,
          is_curved |-> (~is_round /\ ~is_rectangular /\ 2 * hi > 3 * lo),
          is_rectangular |-> is_rectangular,
          width |-> width,
          height |-> height,
          area |-> area ]

NoShape ==
    [is_round |-> FALSE, is_curved |-> FALSE, is_rectangular |-> TRUE,
     width |-> 0, height |-> 0, area |-> 0]

\* cache_key of discover_parts_for_shape: the color id is not part of it
CacheKey(shape) == <<shape.is_round, shape.is_curved, shape.width, shape.height>>

SearchTerms(shape) ==
    IF shape.is_round THEN << [text |-> "round brick", w |-> 0, h |-> 0],
                              [text |-> "circular", w |-> 0, h |-> 0] >>
    ELSE IF shape.is_curved THEN << [text |-> "curved brick", w |-> 0, h |-> 0],
                                   [text |-> "slope", w |-> 0, h |-> 0] >>
    ELSE << [text |-> "brick", w |-> shape.width, h |-> shape.height] >>

\* ------------------------------------------------------ MasterBuilder geometry
ROTATIONS_Reversed == <<270, 180, 90, 0>>

ROTATIONS_HalfTurnFirst == <<180, 270, 0, 90>>

ROTATIONS == <<0, 90, 180, 270>>

_get_rotated_dimensions(width, height, rotation) ==
    IF rotation \in {90, 270} THEN <<height, width>> ELSE <<width, height>>

_get_rectangular_positions(start_x, start_y, width, height) ==
    {<<start_x + dx, start_y + dy>> : dx \in 0 .. width - 1, dy \in 0 .. height - 1}

_get_brick_occupied_positions(position, width, height, z) ==
    {<<position[1] + dx, position[2] + dy, z>> : dx \in 0 .. width - 1, dy \in 0 .. height - 1}

PlacedBrick(part_id, position, rotation, color_id) ==
    [ part_id |-> part_id, position |-> position, rotation |-> rotation,
      color_id |-> color_id, is_verified |-> TRUE ]

\* ------------------------------------------------------------------ state
VARIABLES
    pending,             \* the calls of process_voxels the caller still makes
    voxel_data,          \* argument of the running process_voxels call
    test_mode,           \* MasterBuilder.test_mode (TEST_MODE environment flag)
    listing,             \* port: what fetch_parts answers
    port_mode,           \* port: "up", "search_down" (fetch_parts and verify fail)
                         \* or "down" (every call of the port fails)
    avail,               \* port: memoised answers of verify_part_availability
    port_calls,          \* port calls made by the running call
    voxel_grid,          \* MasterBuilder.voxel_grid, in dict insertion order
    placed_bricks,       \* MasterBuilder.placed_bricks
    occupied_positions,  \* MasterBuilder.occupied_positions
    layer_bricks,        \* MasterBuilder.layer_bricks
    cache,               \* PartDiscoveryService._discovered_parts_cache
    pc,                  \* where the running call is suspended
    fr,                  \* locals of process_voxels / _process_layer / greedy pass
    result,              \* what the last call returned or raised
    returned,            \* every finished call: its input and its result
    audit,               \* what the last call on the Occupancy Store returned
    scene_deltas,        \* BackboardService.scene_deltas
    thread_deltas,       \* BackboardService.thread_deltas
    recorded,            \* every _add_scene_delta call so far: thread and delta
    timeline,            \* what the last get_instruction_timeline call returned
    calls,               \* where the add_object_to_world call of each thread stands
    suspended            \* locals of a process_voxels call waiting at an await

\* the state of the orchestrator (BackboardService) around the builder
orchestrator == << audit, scene_deltas, thread_deltas, recorded, timeline, calls >>

vars == << pending, voxel_data, test_mode, listing, avail, port_calls, voxel_grid,
           placed_bricks, occupied_positions, layer_bricks, cache, pc, fr, result,
           returned, audit, scene_deltas, thread_deltas, recorded, timeline,
           port_mode, calls, suspended >>

PortModes == {"up", "search_down", "down"}

NoAudit == [kind |-> "none", success |-> FALSE, clusters |-> {}, max_layer |-> 0]

NoTimeline == [thread_id |-> "", total_deltas |-> 0, action_counts |-> << >>,
               deltas |-> << >>]

NoResult == [kind |-> "none", error |-> "", total_bricks |-> 0, bricks |-> << >>,
             layers |-> << >>, inventory |-> << >>]

Raised(e) == [kind |-> "error", error |-> e, total_bricks |-> 0, bricks |-> << >>,
              layers |-> << >>, inventory |-> << >>]

NoCalls == [resolve |-> 0, fetch |-> 0, verify |-> << >>]

EmptyFrame ==
    [ layer_z |-> 0, min_z |-> 0, max_z |-> 0, zi |-> 0, color_groups |-> << >>, gi |-> 0, color_id |-> 0,
      shape |-> NoShape, search_terms |-> << >>, ti |-> 0, parts |-> << >>,
      fetched |-> << >>, fi |-> 0, discovered_parts |-> << >>, pi |-> 0, ri |-> 0,
      remaining_voxels |-> {}, remaining |-> {}, sorted_voxels |-> << >>, si |-> 0,
      placed |-> << >> ]

\* a process_voxels call that has not started
NoCall == [pc |-> "idle", fr |-> EmptyFrame, voxel_data |-> << >>, result |-> NoResult]

\* ----------------------------------------------------------- the port's memo
Faults == Cardinality({k \in DOMAIN avail : avail[k] # "yes"})

VerifyAnswers(part_id, color_id) ==
    IF port_mode # "up" THEN {"error"}
    ELSE IF <<part_id, color_id>> \in DOMAIN avail
    THEN {avail[<<part_id, color_id>>]}
    ELSE {"yes"} \cup (IF Faults < MaxFaults /\ part_id \in FaultyParts
                      THEN {"no", "error"} ELSE {})

Remember(part_id, color_id, ans) ==
    IF <<part_id, color_id>> \in DOMAIN avail
    THEN avail
    ELSE avail @@ (<<part_id, color_id>> :> ans)

CountVerify(part_id, color_id) ==
    LET k == <<part_id, color_id>> IN
    [port_calls EXCEPT !.verify =
        IF k \in DOMAIN @ THEN [@ EXCEPT ![k] = @ + 1] ELSE @ @@ (k :> 1)]

\* --------------------------------------------------------- process_voxels
\* self.voxel_grid[(x, y, z)] = hex_color on an insertion-ordered dict
DictSet(grid, pos, hex_color) ==
    IF \E i \in 1 .. Len(grid) : grid[i].pos = pos
    THEN [i \in 1 .. Len(grid) |->
            IF grid[i].pos = pos THEN [pos |-> pos, hex_color |-> hex_color] ELSE grid[i]]
    ELSE Append(grid, [pos |-> pos, hex_color |-> hex_color])

\* the loading loop; raised is set when int() raises on a coordinate
RECURSIVE LoadVoxels(_, _)
LoadVoxels(data, grid) ==
    IF data = << >> THEN [grid |-> grid, raised |-> FALSE]
    ELSE LET voxel == Head(data) IN
         IF IntRaises(voxel.x) \/ IntRaises(voxel.y) \/ IntRaises(voxel.z)
         THEN [grid |-> grid, raised |-> TRUE]
         ELSE LoadVoxels(Tail(data),
                         DictSet(grid, <<PyInt(voxel.x), PyInt(voxel.y), PyInt(voxel.z)>>,
                                 voxel.hex_color))

\* color_groups of _process_layer for layer z: the colors in order of first
\* appearance in the grid, each with its set of (x, y) cells
RECURSIVE GroupByColor(_, _, _)
GroupByColor(grid, z, groups) ==
    IF grid = << >> THEN groups
    ELSE LET e == Head(grid)
             cell == <<e.pos[1], e.pos[2]>>
         IN  IF e.pos[3] # z THEN GroupByColor(Tail(grid), z, groups)
             ELSE IF \E i \in 1 .. Len(groups) : groups[i].hex_color = e.hex_color
             THEN GroupByColor(Tail(grid), z,
                    [i \in 1 .. Len(groups) |->
                        IF groups[i].hex_color = e.hex_color
                        THEN [groups[i] EXCEPT !.voxel_set = @ \cup {cell}]
                        ELSE groups[i]])
             ELSE GroupByColor(Tail(grid), z,
                    Append(groups, [hex_color |-> e.hex_color, voxel_set |-> {cell}]))

GridLayers(grid) == {grid[i].pos[3] : i \in 1 .. Len(grid)}

\* ------------------------------------------------------ _generate_manifest
Digits == <<"0", "1", "2", "3", "4", "5", "6", "7", "8", "9">>

Str(n) == Digits[n + 1]

IsNumeral(s) == \E n \in 0 .. 9 : Digits[n + 1] = s

ParseInt(s) == CHOOSE n \in 0 .. 9 : Digits[n + 1] = s

\* f"{brick.part_id}_{brick.color_id}", as the segments split("_") yields
InventoryKey(brick) == brick.part_id \o <<Str(brick.color_id)>>

RECURSIVE InventoryKeys(_, _)
InventoryKeys(bricks, keys) ==
    IF bricks = << >> THEN keys
    ELSE LET k == InventoryKey(Head(bricks)) IN
         InventoryKeys(Tail(bricks),
                       IF \E i \in 1 .. Len(keys) : keys[i] = k THEN keys ELSE Append(keys, k))

_generate_manifest(bricks, layers) ==
    LET keys == InventoryKeys(bricks, << >>)
        count(k) == Cardinality({i \in 1 .. Len(bricks) : InventoryKey(bricks[i]) = k})
    IN  IF \E i \in 1 .. Len(keys) : ~IsNumeral(keys[i][2])
        THEN Raised("ValueError")
        ELSE [ kind |-> "manifest", error |-> "",
               total_bricks |-> Len(bricks),
               bricks |-> bricks,
               layers |-> [z \in DOMAIN layers |-> Len(layers[z])],
               inventory |-> [i \in 1 .. Len(keys) |->
                                [ part_id |-> keys[i][1],
                                  color_id |-> ParseInt(keys[i][2]),
                                  quantity |-> count(keys[i]) ]] ]

\* ------------------------------------------------- control of the loops
\* Each operator below yields [pc, fr]: where the call suspends next (an
\* awaited port call) or "return" when process_voxels reaches its
\* return self._generate_manifest().

\* range(min_z, max_z + 1)
LayerRange_Descending(min_z, max_z) == [i \in 1 .. max_z - min_z + 1 |-> max_z - i + 1]

LayerRange(min_z, max_z) == [i \in 1 .. max_z - min_z + 1 |-> min_z + i - 1]

\* for z in range(min_z, max_z + 1): the index of the first value from the
\* k-th on whose layer_voxels is not empty, 0 if there is none
LayerAt(grid, min_z, max_z, k) ==
    LET loop == LayerRange(min_z, max_z)
        rest == {i \in k .. Len(loop) : loop[i] \in GridLayers(grid)}
    IN  IF rest = {} THEN 0 ELSE Min(rest)

\* the loop goes on with its k-th value
EnterLayer(f, k) ==
    LET i == LayerAt(voxel_grid, f.min_z, f.max_z, k)
        z == LayerRange(f.min_z, f.max_z)[i]
    IN  IF i = 0 THEN [pc |-> "return", fr |-> f]
        ELSE [pc |-> "color",
              fr |-> [f EXCEPT !.layer_z = z, !.zi = i,
                               !.color_groups = GroupByColor(voxel_grid, z, << >>),
                               !.gi = 1]]

\* for hex_color, voxel_set in color_groups.items(): after one group
AfterGroup(f) ==
    IF f.gi < Len(f.color_groups)
    THEN [pc |-> "color", fr |-> [f EXCEPT !.gi = @ + 1]]
    ELSE EnterLayer(f, f.zi + 1)

\* the part loop and the rotation loop of _process_layer after one greedy
\* pass left rv in remaining_voxels (both loops break on an empty set)
AfterPass(f, rv) ==
    LET g == [f EXCEPT !.remaining_voxels = rv] IN
    IF rv # {} /\ f.ri < Len(ROTATIONS)
    THEN [pc |-> "verify", fr |-> [g EXCEPT !.ri = @ + 1]]
    ELSE IF rv # {} /\ f.pi < Len(f.discovered_parts)
    THEN [pc |-> "verify", fr |-> [g EXCEPT !.pi = @ + 1, !.ri = 1]]
    ELSE AfterGroup(g)

\* discovered_parts is known: fall back if empty, then start the greedy fit
StartFit(f, discovered) ==
    [pc |-> "verify",
     fr |-> [f EXCEPT !.discovered_parts =
                          IF discovered = << >> THEN _get_fallback_parts ELSE discovered,
                      !.remaining_voxels = f.color_groups[f.gi].voxel_set,
                      !.pi = 1, !.ri = 1]]

\* the step ends at nxt; on "return" the manifest is generated from the
\* bricks and layers the step leaves behind
Continue(nxt, bricks, layers) ==
    /\ fr' = nxt.fr
    /\ IF nxt.pc = "return"
       THEN LET m == _generate_manifest(bricks, layers) IN
            /\ pc' = "done"
            /\ result' = m
            /\ returned' = Append(returned, [input |-> voxel_data, result |-> m])
       ELSE /\ pc' = nxt.pc
            /\ UNCHANGED << result, returned >>

\* "Reset state" at the top of process_voxels
ResetList_Keep(old) == old

ResetList(old) == << >>

ResetSet_Keep(old) == old

ResetSet(old) == {}

\* ------------------------------------------------------------------ actions
\* What the caller hands to process_voxels: a given voxel list, or (on a
\* later call) the previous list once more or the empty list.
Submit(d) == [kind |-> "list", data |-> d]

Resubmit == [kind |-> "again", data |-> << >>]

Submitted(req) == IF req.kind = "list" THEN {req.data} ELSE {voxel_data, << >>}

\* process_voxels up to its first await: reset, load, first layer
ProcessVoxels ==
    /\ pc \in {"idle", "done"}
    /\ pending # << >>
    /\ pending' = Tail(pending)
    /\ port_calls' = NoCalls
    /\ placed_bricks' = ResetList(placed_bricks)
    /\ occupied_positions' = ResetSet(occupied_positions)
    /\ layer_bricks' = ResetList(layer_bricks)
    /\ \E input \in Submitted(Head(pending)) :
       LET ld == LoadVoxels(input, << >>) IN
       /\ voxel_data' = input
       /\ voxel_grid' = ld.grid
       /\ IF ld.raised
          THEN /\ pc' = "done"
               /\ fr' = EmptyFrame
               /\ result' = Raised("ValueError")
               /\ returned' = Append(returned, [input |-> input,
                                                result |-> Raised("ValueError")])
          ELSE IF ld.grid = << >>
          THEN LET m == _generate_manifest(placed_bricks', layer_bricks') IN
               /\ pc' = "done"
               /\ fr' = EmptyFrame
               /\ result' = m
               /\ returned' = Append(returned, [input |-> input, result |-> m])
          ELSE LET zs == GridLayers(ld.grid)
                   i == LayerAt(ld.grid, Min(zs), Max(zs), 1)
                   z == LayerRange(Min(zs), Max(zs))[i]
                   f == [EmptyFrame EXCEPT !.layer_z = z, !.min_z = Min(zs),
                            !.max_z = Max(zs), !.zi = i,
                            !.color_groups = GroupByColor(ld.grid, z, << >>),
                            !.gi = 1]
               IN  /\ pc' = "color"
                   /\ fr' = f
                   /\ result' = NoResult
                   /\ UNCHANGED returned
    /\ UNCHANGED << test_mode, listing, avail, cache >>
    /\ UNCHANGED << orchestrator, port_mode, suspended >>

\* await get_closest_lego_color, analyze_voxel_shape, cache lookup of
\* discover_parts_for_shape
ResolveColor ==
    /\ pc = "color"
    /\ port_calls' = [port_calls EXCEPT !.resolve = @ + 1]
    /\ IF port_mode = "down"
       THEN \* the exception of the port leaves _process_layer and process_voxels
            /\ pc' = "done"
            /\ result' = Raised("PortError")
            /\ returned' = Append(returned, [input |-> voxel_data,
                                             result |-> Raised("PortError")])
            /\ UNCHANGED fr
       ELSE LET group == fr.color_groups[fr.gi]
                shape == analyze_voxel_shape(group.voxel_set)
                f == [fr EXCEPT !.color_id = get_closest_lego_color(group.hex_color),
                                !.shape = shape]
            IN  /\ IF CacheKey(shape) \in DOMAIN cache
                   THEN LET nxt == StartFit(f, cache[CacheKey(shape)]) IN
                        /\ pc' = nxt.pc
                        /\ fr' = nxt.fr
                   ELSE /\ pc' = "fetch"
                        /\ fr' = [f EXCEPT !.search_terms = SearchTerms(shape), !.ti = 1,
                                           !.parts = << >>]
                /\ UNCHANGED << result, returned >>
    /\ UNCHANGED << pending, voxel_data, test_mode, listing, avail, voxel_grid,
                    placed_bricks, occupied_positions, layer_bricks, cache >>
    /\ UNCHANGED << orchestrator, port_mode, suspended >>

\* what discover_parts_for_shape stores under cache_key: the list it
\* returns, after the in-place sort
CachedParts_Unsorted(unique, sorted) == unique

CachedParts(unique, sorted) == sorted

\* end of _rebrickable_simple_search and of discover_parts_for_shape:
\* remove duplicates, sort by area, fill the cache
FinishDiscovery(f, parts) ==
    LET sorted == SortByAreaDesc(UniqueParts(parts, {}))
        nxt == StartFit(f, sorted)
    IN  /\ cache' = cache @@ (CacheKey(f.shape) :>
                                CachedParts(UniqueParts(parts, {}), sorted))
        /\ pc' = nxt.pc
        /\ fr' = [nxt.fr EXCEPT !.parts = parts, !.fetched = << >>, !.fi = 0]

\* the search-term loop after term ti is done with parts collected so far
AfterTerm(f, parts) ==
    IF f.ti < Len(f.search_terms)
    THEN /\ pc' = "fetch"
         /\ fr' = [f EXCEPT !.ti = @ + 1, !.parts = parts, !.fetched = << >>, !.fi = 0]
         /\ UNCHANGED cache
    ELSE FinishDiscovery(f, parts)

\* "if not part_num: continue": parts without a part number are passed over
WithPartNum(parts) == SelectSeq(parts, LAMBDA p : p.part_num # <<"">>)

\* await self.rebrickable.fetch_parts(search_term); an exception skips the term
FetchParts ==
    /\ pc = "fetch"
    /\ port_calls' = [port_calls EXCEPT !.fetch = @ + 1]
    /\ IF port_mode = "up" /\ listing.ok /\ WithPartNum(listing.parts) # << >>
       THEN /\ pc' = "disc_verify"
            /\ fr' = [fr EXCEPT !.fetched = WithPartNum(listing.parts), !.fi = 1]
            /\ UNCHANGED cache
       ELSE AfterTerm(fr, fr.parts)
    /\ UNCHANGED << pending, voxel_data, test_mode, listing, avail, voxel_grid,
                    placed_bricks, occupied_positions, layer_bricks, result, returned >>
    /\ UNCHANGED << orchestrator, port_mode, suspended >>

\* one part of the search result: await verify_part_availability, keep the
\* part if available; an exception abandons the rest of this search term
DiscoverVerify ==
    /\ pc = "disc_verify"
    /\ LET part == fr.fetched[fr.fi] IN
       \E ans \in VerifyAnswers(part.part_num, fr.color_id) :
          /\ avail' = Remember(part.part_num, fr.color_id, ans)
          /\ port_calls' = CountVerify(part.part_num, fr.color_id)
          /\ LET parts == IF ans = "yes"
                          THEN Append(fr.parts,
                                      PartDict(part.part_num, part.width, part.height))
                          ELSE fr.parts
             IN  IF ans # "error" /\ fr.fi < Len(fr.fetched)
                 THEN /\ pc' = "disc_verify"
                      /\ fr' = [fr EXCEPT !.parts = parts, !.fi = @ + 1]
                      /\ UNCHANGED cache
                 ELSE AfterTerm(fr, parts)
    /\ UNCHANGED << pending, voxel_data, test_mode, listing, voxel_grid,
                    placed_bricks, occupied_positions, layer_bricks, result, returned >>
    /\ UNCHANGED << orchestrator, port_mode, suspended >>

\* ------------------------------------ _greedy_place_bricks_with_verification
CurrentPart == fr.discovered_parts[fr.pi]

CurrentRotation == ROTATIONS[fr.ri]

\* rot_width, rot_height handed to the greedy pass
CurrentDims ==
    _get_rotated_dimensions(CurrentPart.width, CurrentPart.height, CurrentRotation)

_can_place_brick_at(x, y, z, width, height) ==
    \A pos \in _get_brick_occupied_positions(<<x, y, z>>, width, height, z) :
        pos \notin occupied_positions

\* laminar interlocking: the anchors the scan does not skip
ParityAligned_Soft(x, y, layer_z) == TRUE

ParityAligned(x, y, layer_z) ==
    IF layer_z % 2 = 0
    THEN ~((x % 2 # 0) \/ (y % 2 # 0))
    ELSE ~((x % 2 # 1) \/ (y % 2 # 1))

\* the two nested conditions under which the brick is placed
PlacementValid_Or(x, y, z, width, height, remaining) ==
    \/ _can_place_brick_at(x, y, z, width, height)
    \/ _get_rectangular_positions(x, y, width, height) \subseteq remaining

PlacementValid_AnchorOnly(x, y, z, width, height, remaining) ==
    /\ _can_place_brick_at(x, y, z, width, height)
    /\ <<x, y>> \in remaining

PlacementValid(x, y, z, width, height, remaining) ==
    /\ _can_place_brick_at(x, y, z, width, height)
    /\ _get_rectangular_positions(x, y, width, height) \subseteq remaining

\* remaining_voxels after "Remove placed voxels" in _process_layer
RemovePlaced(remaining_voxels, placed, rot_width, rot_height, layer_z) ==
    remaining_voxels \
        UNION { {<<c[1], c[2]>> :
                    c \in _get_brick_occupied_positions(placed[i].position, rot_width,
                                                        rot_height, layer_z)} :
                i \in 1 .. Len(placed) }

LayerAppend_Overwrite(layers, z, brick) ==
    [l \in DOMAIN layers \cup {z} |-> IF l = z THEN <<brick>> ELSE layers[l]]

LayerAppend(layers, z, brick) ==
    IF z \in DOMAIN layers
    THEN [layers EXCEPT ![z] = Append(@, brick)]
    ELSE layers @@ (z :> <<brick>>)

\* self.occupied_positions.update(occupied)
Occupy_Replace(occupied_positions_, occupied) == occupied

Occupy(occupied_positions_, occupied) == occupied_positions_ \cup occupied

\* is_available of the greedy pass: an exception of the port is fail-open
IsAvailable_FailClosed(ans) == ans = "yes"

IsAvailable_Always(ans) == TRUE

IsAvailable(ans) == ans # "no"

\* entry of a greedy pass: the availability check, then either return []
\* (unavailable) or sorted(remaining) is ready to be scanned
VerifyAvailability ==
    /\ pc = "verify"
    /\ \E ans \in (IF test_mode THEN {"yes"}
                   ELSE VerifyAnswers(CurrentPart.part_num, fr.color_id)) :
          /\ IF test_mode
             THEN UNCHANGED << avail, port_calls >>
             ELSE /\ avail' = Remember(CurrentPart.part_num, fr.color_id, ans)
                  /\ port_calls' = CountVerify(CurrentPart.part_num, fr.color_id)
          /\ IF ~IsAvailable(ans)
             THEN Continue(AfterPass(fr, fr.remaining_voxels), placed_bricks, layer_bricks)
             ELSE /\ pc' = "scan"
                  /\ fr' = [fr EXCEPT !.remaining = fr.remaining_voxels,
                                      !.sorted_voxels = SortedCells(fr.remaining_voxels),
                                      !.si = 1,
                                      !.placed = << >>]
                  /\ UNCHANGED << result, returned >>
    /\ UNCHANGED << pending, voxel_data, test_mode, listing, voxel_grid, placed_bricks,
                    occupied_positions, layer_bricks, cache >>
    /\ UNCHANGED << orchestrator, port_mode, suspended >>

\* one iteration of "for x, y in sorted_voxels"; the last one also returns
\* placed to _process_layer, which removes the placed voxels and moves on
AttemptAnchor ==
    /\ pc = "scan"
    /\ LET x == fr.sorted_voxels[fr.si][1]
           y == fr.sorted_voxels[fr.si][2]
           width == CurrentDims[1]
           height == CurrentDims[2]
           places == /\ ParityAligned(x, y, fr.layer_z)
                     /\ PlacementValid(x, y, fr.layer_z, width, height, fr.remaining)
           brick == PlacedBrick(CurrentPart.part_num, <<x, y, fr.layer_z>>,
                                CurrentRotation, fr.color_id)
           bricks == IF places THEN Append(placed_bricks, brick) ELSE placed_bricks
           layers == IF places THEN LayerAppend(layer_bricks, fr.layer_z, brick)
                     ELSE layer_bricks
           f == IF places
                THEN [fr EXCEPT !.remaining =
                                    @ \ _get_rectangular_positions(x, y, width, height),
                                !.placed = Append(@, brick)]
                ELSE fr
       IN  /\ placed_bricks' = bricks
           /\ layer_bricks' = layers
           /\ occupied_positions' =
                 IF places
                 THEN Occupy(occupied_positions,
                             _get_brick_occupied_positions(<<x, y, fr.layer_z>>, width,
                                                           height, fr.layer_z))
                 ELSE occupied_positions
           /\ IF fr.si < Len(fr.sorted_voxels)
              THEN /\ pc' = "scan"
                   /\ fr' = [f EXCEPT !.si = @ + 1]
                   /\ UNCHANGED << result, returned >>
              ELSE Continue(AfterPass(f, RemovePlaced(f.remaining_voxels, f.placed, width,
                                                      height, f.layer_z)),
                            bricks, layers)
    /\ UNCHANGED << pending, voxel_data, test_mode, listing, avail, port_calls,
                    voxel_grid, cache >>
    /\ UNCHANGED << orchestrator, port_mode, suspended >>

\* ------------------------------------------------------- specifications
InitBuilder ==
    /\ voxel_data = << >>
    /\ avail = << >>
    /\ port_calls = NoCalls
    /\ voxel_grid = << >>
    /\ placed_bricks = << >>
    /\ occupied_positions = {}
    /\ layer_bricks = << >>
    /\ cache = << >>
    /\ pc = "idle"
    /\ fr = EmptyFrame
    /\ result = NoResult
    /\ returned = << >>
    /\ audit = NoAudit
    /\ scene_deltas = << >>
    /\ thread_deltas = << >>
    /\ recorded = << >>
    /\ timeline = NoTimeline
    /\ calls = << >>
    /\ suspended = NoCall

\* one call on a fresh builder, any well-formed voxel list
Init ==
    /\ InitBuilder
    /\ port_mode = "up"
    /\ pending \in {<<Submit(d)>> : d \in VoxelLists}
    /\ test_mode \in BOOLEAN
    /\ listing \in Listings

Next ==
    \/ ProcessVoxels
    \/ ResolveColor
    \/ FetchParts
    \/ DiscoverVerify
    \/ VerifyAvailability
    \/ AttemptAnchor

Spec == Init /\ [][Next]_vars

\* one call on a fresh builder; the voxel list may hold malformed voxels
InitRaw ==
    /\ InitBuilder
    /\ port_mode = "up"
    /\ pending \in {<<Submit(d)>> : d \in SeqsUpTo(RawVoxels, MaxRawVoxels)}
    /\ test_mode \in BOOLEAN
    /\ listing \in Listings

SpecRaw == InitRaw /\ [][Next]_vars

\* two calls on the same builder and the same part-discovery service: the
\* second call gets the same voxel list again, or the empty list
InitRerun ==
    /\ InitBuilder
    /\ port_mode = "up"
    /\ pending \in {<<Submit(d), Resubmit>> : d \in VoxelLists}
    /\ test_mode \in BOOLEAN
    /\ listing \in Listings

SpecRerun == InitRerun /\ [][Next]_vars

\* one call on a fresh builder whose input is a completely filled w x h
\* rectangle of one color on one layer (its voxels listed in any order), the
\* port listing the single candidate of that size
RectCells(x0, y0, w, h) == {<<x0 + dx, y0 + dy>> : dx \in 0 .. w - 1, dy \in 0 .. h - 1}

Rectangles ==
    {r \in [x0 : XS, y0 : YS, z : ZS, w : 1 .. MaxVoxels, h : 1 .. MaxVoxels, c : Colors] :
        /\ r.w * r.h <= MaxVoxels
        /\ RectCells(r.x0, r.y0, r.w, r.h) \subseteq XS \X YS}

RectLists(r) ==
    {d \in [1 .. r.w * r.h -> WellFormedVoxels] :
        /\ \A i \in DOMAIN d : d[i].z.v = r.z /\ d[i].hex_color = r.c
        /\ {<<d[i].x.v, d[i].y.v>> : i \in DOMAIN d} = RectCells(r.x0, r.y0, r.w, r.h)}

RectListing(r) ==
    [ok |-> TRUE,
     parts |-> << RawPart(IF r.w * r.h = 1 THEN P3005 ELSE P3004, r.w, r.h) >>]

InitRect ==
    /\ InitBuilder
    /\ port_mode = "up"
    /\ \E r \in Rectangles :
          /\ pending \in {<<Submit(d)>> : d \in RectLists(r)}
          /\ listing = RectListing(r)
    /\ test_mode \in BOOLEAN

SpecRect == InitRect /\ [][Next]_vars

\* one call on a fresh builder, the port listing a single unit part whose
\* part number is "3005", "3005_1", "brick_2x4" or the empty string
IdListings ==
    { [ok |-> TRUE, parts |-> << RawPart(num, 1, 1) >>] :
        num \in {P3005, <<"3005", "1">>, <<"brick", "2x4">>, <<"">>} }

InitIds ==
    /\ InitBuilder
    /\ port_mode = "up"
    /\ pending \in {<<Submit(d)>> : d \in VoxelLists}
    /\ test_mode \in BOOLEAN
    /\ listing \in IdListings

SpecIds == InitIds /\ [][Next]_vars

\* one call on a fresh builder, the port up, its search down or all of it
\* down; with the port up its listing is any of Listings or IdListings
InitPort ==
    /\ InitBuilder
    /\ port_mode \in PortModes
    /\ pending \in {<<Submit(d)>> : d \in VoxelLists}
    /\ test_mode \in BOOLEAN
    /\ listing \in IF port_mode = "up" THEN Listings \cup IdListings
                   ELSE {[ok |-> FALSE, parts |-> << >>]}

SpecPort == InitPort /\ [][Next]_vars

\* the event loop resumes the suspended call once the awaited port call has
\* answered or raised
SpecLive == SpecPort /\ WF_vars(Next)

\* ------------------------------------------ the builder as Occupancy Store
\* BackboardService drives the builder through register_brick,
\* check_laminar_interlocking and connectivity_audit.  The available
\* master_builder.py does not define them; they follow the specification
\* (4.3 tryPlace, 4.5 Interlock Auditor, 4.6 Connectivity Auditor).
WorldXS == 0 .. 1
WorldYS == 0 .. 1
WorldZS == 0 .. 3

WorldGrid == WorldXS \X WorldYS \X WorldZS

BrickDims == {<<1, 1, 1>>, <<2, 1, 1>>, <<2, 2, 1>>}

WorldCells(position, dimensions) ==
    {<<position[1] + dx, position[2] + dy, position[3] + dz>> :
        dx \in 0 .. dimensions[1] - 1, dy \in 0 .. dimensions[2] - 1,
        dz \in 0 .. dimensions[3] - 1}

RegisteredBrick(part_id, color_id, position, dimensions, is_ai_filled) ==
    [ part_id |-> part_id, color_id |-> color_id, position |-> position,
      dimensions |-> dimensions, is_ai_filled |-> is_ai_filled ]

Store == [bricks |-> placed_bricks, occupied |-> occupied_positions,
          layers |-> layer_bricks]

CanPlace(store, brick) ==
    WorldCells(brick.position, brick.dimensions) \cap store.occupied = {}

\* tryPlace: check and commit in one step, or leave the store alone
TryPlace(store, brick) ==
    IF CanPlace(store, brick)
    THEN [ bricks |-> Append(store.bricks, brick),
           occupied |-> store.occupied \cup WorldCells(brick.position, brick.dimensions),
           layers |-> LayerAppend(store.layers, brick.position[3], brick) ]
    ELSE store

Neighbours4(c) ==
    { <<c[1] + 1, c[2], c[3]>>, <<c[1] - 1, c[2], c[3]>>,
      <<c[1], c[2] + 1, c[3]>>, <<c[1], c[2] - 1, c[3]>> }

Neighbours6(c) == Neighbours4(c) \cup {<<c[1], c[2], c[3] + 1>>, <<c[1], c[2], c[3] - 1>>}

\* seam cells of a layer: the cells of a block that touch, within the layer,
\* a cell outside that block (another block or empty space)
SeamCells(layer) ==
    UNION { {c \in WorldCells(layer[i].position, layer[i].dimensions) :
                \E n \in Neighbours4(c) :
                    n \notin WorldCells(layer[i].position, layer[i].dimensions)} :
            i \in 1 .. Len(layer) }

\* most frequent color id of the layer's blocks, ties broken by the first
\* color id met in insertion order
DominantColor(layer) ==
    LET count(c) == Cardinality({i \in 1 .. Len(layer) : layer[i].color_id = c})
        best == CHOOSE i \in 1 .. Len(layer) :
                    /\ \A j \in 1 .. Len(layer) :
                          count(layer[j].color_id) <= count(layer[i].color_id)
                    /\ \A j \in 1 .. i - 1 :
                          count(layer[j].color_id) < count(layer[i].color_id)
    IN  layer[best].color_id

FillerZ_Same(z) == z

\* the layer a filler for a seam cell of layer z goes to
FillerZ(z) == z + 1

\* one unit filler per seam cell whose cell above is free
RECURSIVE AddFillers(_, _, _)
AddFillers(store, seams, color_id) ==
    IF seams = << >> THEN store
    ELSE LET c == Head(seams)
             above == <<c[1], c[2], FillerZ(c[3])>>
         IN  AddFillers(IF above \in store.occupied THEN store
                        ELSE TryPlace(store, RegisteredBrick(P3005, color_id, above,
                                                             <<1, 1, 1>>, TRUE)),
                        Tail(seams), color_id)

check_laminar_interlocking(store, layer) ==
    IF layer \notin DOMAIN store.layers THEN store
    ELSE AddFillers(store, SortedCells(SeamCells(store.layers[layer])),
                    DominantColor(store.layers[layer]))

\* flood fill over cells, one cell of the work list at a time
RECURSIVE FloodFill(_, _, _)
FloodFill(work, reached, cells) ==
    IF work = {} THEN reached
    ELSE LET c == CHOOSE w \in work : TRUE
             new == (Neighbours6(c) \cap cells) \ reached
         IN  FloodFill((work \ {c}) \cup new, reached \cup new, cells)

BoundingBox(S) ==
    << <<Min({c[1] : c \in S}), Min({c[2] : c \in S}), Min({c[3] : c \in S})>>,
       <<Max({c[1] : c \in S}), Max({c[2] : c \in S}), Max({c[3] : c \in S})>> >>

RECURSIVE Clusters(_)
Clusters(unreached) ==
    IF unreached = {} THEN {}
    ELSE LET seed == CHOOSE c \in unreached : TRUE
             voxels == FloodFill({seed}, {seed}, unreached)
         IN  {[voxels |-> voxels, bounding_box |-> BoundingBox(voxels)]}
             \cup Clusters(unreached \ voxels)

Seeds_Any(occupied) == {CHOOSE c \in occupied : \A d \in occupied : c[3] <= d[3]}

\* the ground: every occupied cell at the minimum z of the structure
Seeds(occupied) == {c \in occupied : \A d \in occupied : c[3] <= d[3]}

connectivity_audit(occupied) ==
    IF occupied = {} THEN {}
    ELSE Clusters(occupied \ FloodFill(Seeds(occupied), Seeds(occupied), occupied))

AuditedLayers_Descending(max_layer) == [i \in 1 .. max_layer + 1 |-> max_layer + 1 - i]

\* for layer in range(max_layer + 1)
AuditedLayers(max_layer) == [i \in 1 .. max_layer + 1 |-> i - 1]

RECURSIVE InterlockLayers(_, _)
InterlockLayers(store, layers) ==
    IF layers = << >> THEN store
    ELSE InterlockLayers(check_laminar_interlocking(store, Head(layers)), Tail(layers))

\* register_brick with a brick inside the grid of the model (the two color
\* ids are interchangeable: the first brick of a store has color id 4)
RegisterBrick ==
    /\ Len(placed_bricks) < MaxBricks
    /\ \E position \in WorldGrid, dimensions \in BrickDims,
          color_id \in IF placed_bricks = << >> THEN {4} ELSE {1, 4} :
          LET brick == RegisteredBrick(IF dimensions = <<1, 1, 1>> THEN P3005
                                       ELSE IF dimensions = <<2, 1, 1>> THEN P3004
                                       ELSE P3003,
                                       color_id, position, dimensions, FALSE)
              after == TryPlace(Store, brick)
          IN  /\ WorldCells(position, dimensions) \subseteq WorldGrid
              /\ placed_bricks' = after.bricks
              /\ occupied_positions' = after.occupied
              /\ layer_bricks' = after.layers
              /\ audit' = [NoAudit EXCEPT !.kind = "register",
                                          !.success = CanPlace(Store, brick)]
    /\ UNCHANGED << pending, voxel_data, test_mode, listing, port_mode, calls,
                    suspended, avail, port_calls,
                    voxel_grid, cache, pc, fr, result, returned, scene_deltas,
                    thread_deltas, recorded, timeline >>

\* connectivity_audit called on the store as it is
ConnectivityAudit ==
    /\ audit' = [NoAudit EXCEPT !.kind = "audit",
                                !.clusters = connectivity_audit(occupied_positions)]
    /\ UNCHANGED << pending, voxel_data, test_mode, listing, port_mode, calls,
                    suspended, avail, port_calls,
                    voxel_grid, placed_bricks, occupied_positions, layer_bricks, cache,
                    pc, fr, result, returned, scene_deltas, thread_deltas, recorded,
                    timeline >>

\* BackboardService._apply_engineering_rules: interlocking for the layers
\* 0 .. max_layer, then the connectivity audit of the result
ApplyEngineeringRules ==
    LET max_layer == IF DOMAIN layer_bricks = {} THEN 0 ELSE Max(DOMAIN layer_bricks)
        after == InterlockLayers(Store, AuditedLayers(max_layer))
    IN  /\ max_layer <= MaxLayer
        /\ placed_bricks' = after.bricks
        /\ occupied_positions' = after.occupied
        /\ layer_bricks' = after.layers
        /\ audit' = [NoAudit EXCEPT !.kind = "rules",
                                    !.clusters = connectivity_audit(after.occupied),
                                    !.max_layer = max_layer]
        /\ UNCHANGED << pending, voxel_data, test_mode, listing, port_mode, calls,
                        suspended, avail, port_calls,
                        voxel_grid, cache, pc, fr, result, returned, scene_deltas,
                        thread_deltas, recorded, timeline >>

InitWorld ==
    /\ InitBuilder
    /\ port_mode = "up"
    /\ pending = << >>
    /\ test_mode = FALSE
    /\ listing = [ok |-> FALSE, parts |-> << >>]

NextWorld ==
    \/ RegisterBrick
    \/ ConnectivityAudit
    \/ ApplyEngineeringRules

SpecWorld == InitWorld /\ [][NextWorld]_vars

\* ------------------------------------------------- scene deltas, timeline
None == "None"

Models == {"gemini-3-pro", "gemini-3-flash"}

Threads == {"thread_1", "thread_2"}

\* _create_scene_delta: the keys of the dict depend on the action
_create_scene_delta(timestamp, action, brick_id, model_switch, step_number) ==
    LET delta == [timestamp |-> timestamp, action |-> action,
                  threejs_object_id |-> brick_id]
    IN  CASE action = "add_brick" ->
                delta @@ [ visible |-> TRUE, part_id |-> "3001", color_id |-> 14,
                           position |-> <<0, 0, 0>>, dimensions |-> <<4, 2, 1>>,
                           is_ai_filled |-> FALSE, model_switch |-> model_switch ]
          [] action = "step_marker" ->
                delta @@ [step_number |-> step_number, description |-> "step"]
          [] action = "model_switch" ->
                delta @@ [from_model |-> model_switch, to_model |-> model_switch]
          [] OTHER -> delta

\* the deltas a caller records: an added brick (with or without a model
\* name), a step marker, a model switch; the timestamp is the length of the
\* global log
NewDeltas ==
    LET ts == Len(scene_deltas) IN
    {_create_scene_delta(ts, "add_brick", <<"brick", "3001", ts>>, m, 0) :
        m \in Models \cup {None}}
    \cup {_create_scene_delta(ts, "step_marker", None, None, 1)}
    \cup {_create_scene_delta(ts, "model_switch", None, m, 0) : m \in Models}

\* delta.get(key): None when the key is absent
DictGet(delta, key) == IF key \in DOMAIN delta THEN delta[key] ELSE None

ThreadLog_Global(thread_id) == scene_deltas

\* the list get_interactive_instructions reads
ThreadLog(thread_id) ==
    IF thread_id \in DOMAIN thread_deltas THEN thread_deltas[thread_id] ELSE << >>

\* the loop of get_interactive_instructions
RECURSIVE EnhancedDeltas(_, _, _)
EnhancedDeltas(deltas, current_model, enhanced) ==
    IF deltas = << >> THEN enhanced
    ELSE LET delta == Head(deltas)
             model == DictGet(delta, "model_switch")
             marker == [ timestamp |-> delta.timestamp, action |-> "model_switch",
                         from_model |-> current_model, to_model |-> model,
                         description |-> "Switched" ]
         IN  IF model # None
             THEN EnhancedDeltas(Tail(deltas), model,
                     IF current_model # None /\ current_model # model
                     THEN enhanced \o <<marker, delta>>
                     ELSE Append(enhanced, delta))
             ELSE EnhancedDeltas(Tail(deltas), current_model, Append(enhanced, delta))

get_interactive_instructions(thread_id) ==
    IF thread_id \notin DOMAIN thread_deltas THEN << >>
    ELSE EnhancedDeltas(ThreadLog(thread_id), None, << >>)

\* action_counts of get_instruction_timeline
ActionCounts(deltas) ==
    [a \in {DictGet(deltas[i], "action") : i \in 1 .. Len(deltas)} |->
        Cardinality({i \in 1 .. Len(deltas) : DictGet(deltas[i], "action") = a})]

\* _add_scene_delta(thread_id, delta)
AddSceneDelta ==
    /\ Len(scene_deltas) < MaxDeltas
    /\ \E thread_id \in Threads, delta \in NewDeltas :
          /\ thread_deltas' =
                IF thread_id \in DOMAIN thread_deltas
                THEN [thread_deltas EXCEPT ![thread_id] = Append(@, delta)]
                ELSE thread_deltas @@ (thread_id :> <<delta>>)
          /\ scene_deltas' = Append(scene_deltas, delta)
          /\ recorded' = Append(recorded, [thread_id |-> thread_id, delta |-> delta])
    /\ UNCHANGED << pending, voxel_data, test_mode, listing, port_mode, calls,
                    suspended, avail, port_calls,
                    voxel_grid, placed_bricks, occupied_positions, layer_bricks, cache,
                    pc, fr, result, returned, audit, timeline >>

\* get_instruction_timeline(thread_id)
GetInstructionTimeline ==
    /\ \E thread_id \in Threads :
          LET deltas == get_interactive_instructions(thread_id) IN
          timeline' = [ thread_id |-> thread_id, total_deltas |-> Len(deltas),
                        action_counts |-> ActionCounts(deltas), deltas |-> deltas ]
    /\ UNCHANGED << pending, voxel_data, test_mode, listing, port_mode, calls,
                    suspended, avail, port_calls,
                    voxel_grid, placed_bricks, occupied_positions, layer_bricks, cache,
                    pc, fr, result, returned, audit, scene_deltas, thread_deltas,
                    recorded >>

NextTimeline ==
    \/ AddSceneDelta
    \/ GetInstructionTimeline

SpecTimeline == InitWorld /\ [][NextTimeline]_vars

\* ------------------------------------------ the same voxels in two orders
\* the lists that hold the voxels of d in another order (or the same)
Reorderings(d) ==
    { [i \in 1 .. Len(d) |-> d[f[i]]] :
        f \in {g \in [1 .. Len(d) -> 1 .. Len(d)] :
                  \A i, j \in 1 .. Len(d) : g[i] = g[j] => i = j} }

\* a new process: a new builder and a new part-discovery service (the
\* module-level singleton of part_discovery.py is built again); the port
\* goes on answering as before
Restart ==
    /\ pc = "done"
    /\ pending # << >>
    /\ pc' = "idle"
    /\ fr' = EmptyFrame
    /\ result' = NoResult
    /\ voxel_data' = << >>
    /\ voxel_grid' = << >>
    /\ placed_bricks' = << >>
    /\ occupied_positions' = {}
    /\ layer_bricks' = << >>
    /\ cache' = << >>
    /\ port_calls' = NoCalls
    /\ UNCHANGED << pending, test_mode, listing, avail, returned >>
    /\ UNCHANGED << orchestrator, port_mode, suspended >>

\* a voxel list is converted, then the same voxels in another order are
\* converted by a new process against the same port
InitPermuted ==
    /\ InitBuilder
    /\ port_mode = "up"
    /\ pending \in UNION { {<<Submit(d), Submit(p)>> : p \in Reorderings(d)} :
                            d \in VoxelLists }
    /\ test_mode \in BOOLEAN
    /\ listing \in Listings

NextPermuted ==
    \/ pc = "idle" /\ ProcessVoxels
    \/ Restart
    \/ ResolveColor
    \/ FetchParts
    \/ DiscoverVerify
    \/ VerifyAvailability
    \/ AttemptAnchor

SpecPermuted == InitPermuted /\ [][NextPermuted]_vars

\* --------------------------------------- two calls on one builder at once
\* the values of pc at which process_voxels waits for a port call
AwaitPoints == {"color", "fetch", "disc_verify", "verify"}

\* the event loop switches between two process_voxels calls on the same
\* builder: the running call waits at an await (or has not started, or has
\* returned) and the other one goes on with its own locals; the attributes
\* of the builder are shared
Yield ==
    /\ pc \in AwaitPoints \cup {"idle", "done"}
    /\ suspended.pc # "done"
    /\ suspended' = [pc |-> pc, fr |-> fr, voxel_data |-> voxel_data, result |-> result]
    /\ pc' = suspended.pc
    /\ fr' = suspended.fr
    /\ voxel_data' = suspended.voxel_data
    /\ result' = suspended.result
    /\ UNCHANGED << pending, test_mode, listing, avail, port_calls, voxel_grid,
                    placed_bricks, occupied_positions, layer_bricks, cache, returned >>
    /\ UNCHANGED << orchestrator, port_mode >>

\* two callers hand a voxel list each to the same builder (each voxel is a
\* parity-aligned anchor of its layer)
InterleavedLists ==
    { << MkVoxel(0, 0, 0, Red) >>, << MkVoxel(-1, -1, 1, Blue) >>,
      << MkVoxel(-1, -1, 1, Blue), MkVoxel(1, -1, 1, Red) >> }

InitInterleaved ==
    /\ InitBuilder
    /\ port_mode = "up"
    /\ pending \in {<<Submit(d), Submit(e)>> : d, e \in InterleavedLists}
    /\ test_mode \in BOOLEAN
    /\ listing \in Listings

NextInterleaved ==
    \/ pc = "idle" /\ ProcessVoxels
    \/ Yield
    \/ ResolveColor
    \/ FetchParts
    \/ DiscoverVerify
    \/ VerifyAvailability
    \/ AttemptAnchor

SpecInterleaved == InitInterleaved /\ [][NextInterleaved]_vars

\* ------------------------------------------------- add_object_to_world
\* the three logs _add_scene_delta feeds (recorded is the history of its calls)
Logs == [scene |-> scene_deltas, threads |-> thread_deltas, rec |-> recorded]

_add_scene_delta(logs, thread_id, delta) ==
    [ scene |-> Append(logs.scene, delta),
      threads |-> IF thread_id \in DOMAIN logs.threads
                  THEN [logs.threads EXCEPT ![thread_id] = Append(@, delta)]
                  ELSE logs.threads @@ (thread_id :> <<delta>>),
      rec |-> Append(logs.rec, [thread_id |-> thread_id, delta |-> delta]) ]

\* "Record model switch delta": timestamp=len(self.scene_deltas)
RecordModelSwitch(logs, thread_id, model) ==
    _add_scene_delta(logs, thread_id,
                     _create_scene_delta(Len(logs.scene), "model_switch", None, model, 0))

\* the tool calls a response may carry
PlaceBrick(part_id, position) ==
    [name |-> "place_brick", part_id |-> part_id, color_id |-> 4, position |-> position]

FinalizeStep(step_number) ==
    [name |-> "finalize_assembly_step", step_number |-> step_number]

ToolCallLists ==
    { << PlaceBrick(P3005, <<0, 0, 0>>), PlaceBrick(P3004, <<0, 0, 0>>) >>,
      << PlaceBrick(P3005, <<1, 0, 0>>), FinalizeStep(1) >> }

\* timestamp += 1
Advance_Not(timestamp) == timestamp

Advance(timestamp) == timestamp + 1

\* the loop of _handle_tool_calls over the tool calls, up to its await
RECURSIVE HandleToolCalls(_, _, _, _, _)
HandleToolCalls(tool_calls, thread_id, timestamp, store, logs) ==
    IF tool_calls = << >> THEN [store |-> store, logs |-> logs]
    ELSE LET call == Head(tool_calls) IN
         IF call.name = "place_brick"
         THEN LET brick == RegisteredBrick(call.part_id, call.color_id, call.position,
                                           <<1, 1, 1>>, FALSE)
                  success == CanPlace(store, brick)
                  scene_delta == _create_scene_delta(timestamp, "add_brick",
                                     <<"brick">> \o call.part_id \o <<timestamp>>, None, 0)
              IN  IF success
                  THEN HandleToolCalls(Tail(tool_calls), thread_id, Advance(timestamp),
                                       TryPlace(store, brick),
                                       _add_scene_delta(logs, thread_id, scene_delta))
                  ELSE HandleToolCalls(Tail(tool_calls), thread_id, timestamp, store, logs)
         ELSE HandleToolCalls(Tail(tool_calls), thread_id, Advance(timestamp), store,
                              _add_scene_delta(logs, thread_id,
                                  _create_scene_delta(timestamp, "step_marker", None, None,
                                                      call.step_number)))

\* where the add_object_to_world call of a thread stands: "idle" (none
\* yet), awaiting the answer of a phase ("architectural", "bulk"), awaiting
\* submit_tool_outputs of a phase, or "done"
CallAt(thread_id) == IF thread_id \in DOMAIN calls THEN calls[thread_id] ELSE "idle"

MoveCall(thread_id, to) ==
    calls' = IF thread_id \in DOMAIN calls THEN [calls EXCEPT ![thread_id] = to]
             ELSE calls @@ (thread_id :> to)

SetLogs(logs) ==
    /\ scene_deltas' = logs.scene
    /\ thread_deltas' = logs.threads
    /\ recorded' = logs.rec

SetStore(store) ==
    /\ placed_bricks' = store.bricks
    /\ occupied_positions' = store.occupied
    /\ layer_bricks' = store.layers

Builder == << pending, voxel_data, test_mode, listing, port_mode, suspended, avail,
              port_calls, voxel_grid, cache, pc, fr, result, returned >>

\* "Phase 3: Apply engineering rules after placement", then the call returns
EndCall(thread_id) ==
    LET max_layer == IF DOMAIN layer_bricks = {} THEN 0 ELSE Max(DOMAIN layer_bricks)
        after == InterlockLayers(Store, AuditedLayers(max_layer))
    IN  /\ SetStore(after)
        /\ audit' = [NoAudit EXCEPT !.kind = "rules",
                                    !.clusters = connectivity_audit(after.occupied),
                                    !.max_layer = max_layer]
        /\ MoveCall(thread_id, "done")
        /\ UNCHANGED << scene_deltas, thread_deltas, recorded >>

\* "Phase 2": the switch to gemini-3-flash is recorded, the bulk message sent
StartBulk(thread_id) ==
    /\ SetLogs(RecordModelSwitch(Logs, thread_id, "gemini-3-flash"))
    /\ MoveCall(thread_id, "bulk")
    /\ UNCHANGED << placed_bricks, occupied_positions, layer_bricks, audit >>

\* _handle_tool_calls up to await self.client.submit_tool_outputs
ToolCalls(thread_id, tool_calls, to) ==
    LET h == HandleToolCalls(tool_calls, thread_id, Len(scene_deltas), Store, Logs) IN
    /\ SetStore(h.store)
    /\ SetLogs(h.logs)
    /\ MoveCall(thread_id, to)
    /\ UNCHANGED audit

\* add_object_to_world up to its first await
AddObjectToWorld ==
    /\ Len(scene_deltas) < MaxDeltas
    /\ \E thread_id \in Threads, use_high_thinking \in BOOLEAN :
          /\ CallAt(thread_id) \in {"idle", "done"}
          /\ IF use_high_thinking
             THEN /\ SetLogs(RecordModelSwitch(Logs, thread_id, "gemini-3-pro"))
                  /\ MoveCall(thread_id, "architectural")
                  /\ UNCHANGED << placed_bricks, occupied_positions, layer_bricks, audit >>
             ELSE StartBulk(thread_id)
    /\ UNCHANGED << Builder, timeline >>

\* the answer of gemini-3-pro: tool calls to execute (REQUIRES_ACTION) or none
ArchitecturalResponse ==
    /\ \E thread_id \in Threads, tool_calls \in ToolCallLists \cup {<< >>} :
          /\ CallAt(thread_id) = "architectural"
          /\ IF tool_calls # << >>
             THEN ToolCalls(thread_id, tool_calls, "architectural_tools")
             ELSE StartBulk(thread_id)
    /\ UNCHANGED << Builder, timeline >>

\* submit_tool_outputs of the architectural phase has answered
ArchitecturalSubmitted ==
    /\ \E thread_id \in Threads :
          /\ CallAt(thread_id) = "architectural_tools"
          /\ StartBulk(thread_id)
    /\ UNCHANGED << Builder, timeline >>

\* the answer of gemini-3-flash
BulkResponse ==
    /\ \E thread_id \in Threads, tool_calls \in ToolCallLists \cup {<< >>} :
          /\ CallAt(thread_id) = "bulk"
          /\ IF tool_calls # << >>
             THEN ToolCalls(thread_id, tool_calls, "bulk_tools")
             ELSE EndCall(thread_id)
    /\ UNCHANGED << Builder, timeline >>

\* submit_tool_outputs of the bulk phase has answered
BulkSubmitted ==
    /\ \E thread_id \in Threads :
          /\ CallAt(thread_id) = "bulk_tools"
          /\ EndCall(thread_id)
    /\ UNCHANGED << Builder, timeline >>

NextOrchestrator ==
    \/ AddObjectToWorld
    \/ ArchitecturalResponse
    \/ ArchitecturalSubmitted
    \/ BulkResponse
    \/ BulkSubmitted
    \/ GetInstructionTimeline

\* calls of add_object_to_world on two threads of one service, interleaved
\* at their awaits
SpecOrchestrator == InitWorld /\ [][NextOrchestrator]_vars

\* ------------------------------------------------------------------ claims
\* Stud dimensions of the catalog's parts, and the cells a placed brick
\* covers, stated independently of the builder's own bookkeeping.
StudsOf(part_id) ==
    CASE part_id = P3001 -> <<4, 2>>
      [] part_id = P3003 -> <<2, 2>>
      [] part_id = P3004 -> <<2, 1>>
      [] part_id = P3005 -> <<1, 1>>

BrickCells(b) ==
    LET d == StudsOf(b.part_id)
        w == IF b.rotation \in {90, 270} THEN d[2] ELSE d[1]
        h == IF b.rotation \in {90, 270} THEN d[1] ELSE d[2]
    IN  {<<b.position[1] + dx, b.position[2] + dy, b.position[3]>> :
            dx \in 0 .. w - 1, dy \in 0 .. h - 1}

IsEvenNum(n) == \E k \in -8 .. 8 : n = 2 * k

InputCell(v) == <<v.x.v, v.y.v, v.z.v>>

Finished == pc = "done" /\ pending = << >>

\* C1: after process_voxels completes on a non-empty voxel list, every input
\* voxel coordinate lies in the footprint of exactly one brick of the manifest.
C1_Coverage ==
    (pc = "done" /\ voxel_data # << >>) =>
        /\ result.kind = "manifest"
        /\ \A i \in 1 .. Len(voxel_data) :
              Cardinality({k \in 1 .. Len(result.bricks) :
                              InputCell(voxel_data[i]) \in BrickCells(result.bricks[k])}) = 1

\* C2: in every state of a run, the cells of any two distinct placed bricks
\* are disjoint.
C2_Exclusivity ==
    \A i, j \in 1 .. Len(placed_bricks) :
        i < j => BrickCells(placed_bricks[i]) \cap BrickCells(placed_bricks[j]) = {}

C2_Witness ==
    /\ Len(placed_bricks) >= 2
    /\ placed_bricks[1].position[3] = placed_bricks[2].position[3]
    /\ placed_bricks[1].color_id # placed_bricks[2].color_id

\* C3: the anchor (x, y) of every placed brick is even/even on an even layer
\* and odd/odd on an odd layer, negative coordinates included.
C3_Parity ==
    \A i \in 1 .. Len(placed_bricks) :
        LET b == placed_bricks[i] IN
        IF IsEvenNum(b.position[3])
        THEN IsEvenNum(b.position[1]) /\ IsEvenNum(b.position[2])
        ELSE ~IsEvenNum(b.position[1]) /\ ~IsEvenNum(b.position[2])

C3_Witness ==
    /\ pc = "done"
    /\ \E i \in 1 .. Len(placed_bricks) :
          /\ placed_bricks[i].position[1] < 0
          /\ placed_bricks[i].position[2] < 0
          /\ placed_bricks[i].position[3] = 1
    /\ \E i \in 1 .. Len(placed_bricks) : placed_bricks[i].position[3] = 0

\* A placement of part p (any of the four rotations) that is still valid on
\* the cells rem of layer z: a parity-aligned anchor whose whole rotated
\* footprint lies in rem and is unoccupied.
ValidPlacementExists(p, rem, z) ==
    \E a \in rem : \E d \in {<<p.width, p.height>>, <<p.height, p.width>>} :
        /\ IsEvenNum(a[1]) = IsEvenNum(z)
        /\ IsEvenNum(a[2]) = IsEvenNum(z)
        /\ \A dx \in 0 .. d[1] - 1, dy \in 0 .. d[2] - 1 :
              /\ <<a[1] + dx, a[2] + dy>> \in rem
              /\ <<a[1] + dx, a[2] + dy, z>> \notin occupied_positions

\* the port does not refuse part p in the color of the current group
CandidateAvailable(p) ==
    \/ test_mode
    \/ /\ <<p.part_num, fr.color_id>> \in DOMAIN avail
       /\ avail[<<p.part_num, fr.color_id>>] # "no"

Refused(part_id, color_id) ==
    /\ <<part_id, color_id>> \in DOMAIN avail
    /\ avail[<<part_id, color_id>>] = "no"

\* some verify call about (part_id, color_id) did not report it unavailable
ReportedAvailable(part_id, color_id) ==
    /\ <<part_id, color_id>> \in DOMAIN avail
    /\ avail[<<part_id, color_id>>] # "no"

\* C5 (as claimed): a part the port reports unavailable for a color on every
\* verify call never appears with that color among the placed bricks, i.e.
\* every placed brick's (part, color) was reported available by some call.
C5_Original ==
    \A i \in 1 .. Len(placed_bricks) :
        ReportedAvailable(placed_bricks[i].part_id, placed_bricks[i].color_id)

\* C5 (amended): outside test mode, no placed brick has a (part, color) the
\* port refuses, and a greedy pass whose availability check is refused
\* places nothing and hands remaining_voxels on unchanged.
C5_NoRefusedBrick ==
    ~test_mode =>
        \A i \in 1 .. Len(placed_bricks) :
            ~Refused(placed_bricks[i].part_id, placed_bricks[i].color_id)

C5_AbandonStep ==
    (pc = "verify" /\ ~test_mode /\ Refused(CurrentPart.part_num, fr.color_id)')
        => /\ pc' # "scan"
           /\ fr'.remaining_voxels = fr.remaining_voxels
           /\ UNCHANGED << placed_bricks, occupied_positions, layer_bricks >>

C5_Fallback == []C5_NoRefusedBrick /\ [][C5_AbandonStep]_vars

C5_Witness ==
    /\ pc = "done"
    /\ ~test_mode
    /\ \E k \in DOMAIN avail :
          /\ avail[k] = "no"
          /\ k \in DOMAIN port_calls.verify
          /\ port_calls.verify[k] >= 4
          /\ \E i \in 1 .. Len(placed_bricks) :
                /\ placed_bricks[i].color_id = k[2]
                /\ placed_bricks[i].part_id # k[1]

\* C6: when the availability check of a greedy pass raises, the pass goes on
\* to scan the voxels exactly as for an available part, no error is recorded
\* as the result of the call, and the call ends with a manifest.
C6_NoErrorResult ==
    /\ result.kind # "error"
    /\ pc = "done" => result.kind = "manifest"

C6_ErrorStep ==
    ( /\ pc = "verify"
      /\ ~test_mode
      /\ avail'[<<CurrentPart.part_num, fr.color_id>>] = "error" )
        => /\ pc' = "scan"
           /\ fr'.remaining = fr.remaining_voxels
           /\ Len(fr'.sorted_voxels) = Cardinality(fr.remaining_voxels)
           /\ fr'.pi = fr.pi /\ fr'.ri = fr.ri

C6_FailOpen == []C6_NoErrorResult /\ [][C6_ErrorStep]_vars

C6_Witness ==
    /\ pc = "done"
    /\ result.kind = "manifest"
    /\ \E i \in 1 .. Len(result.bricks) :
          /\ <<result.bricks[i].part_id, result.bricks[i].color_id>> \in DOMAIN avail
          /\ avail[<<result.bricks[i].part_id, result.bricks[i].color_id>>] = "error"

\* C7: two calls of process_voxels with the same voxel list on the same
\* builder (and the same part-discovery cache) return identical manifests.
C7_Idempotent ==
    (Len(returned) = 2 /\ returned[1].input = returned[2].input)
        => returned[1].result = returned[2].result

C7_Witness ==
    /\ Len(returned) = 2
    /\ returned[1].input = returned[2].input
    /\ returned[2].result.total_bricks >= 1
    /\ listing.ok
    /\ port_calls.fetch = 0
    /\ cache # << >>

\* the scan is at a parity-aligned anchor: a placement attempt
AnchorX == fr.sorted_voxels[fr.si][1]

AnchorY == fr.sorted_voxels[fr.si][2]

PlacementAttempt ==
    /\ pc = "scan"
    /\ IsEvenNum(AnchorX) = IsEvenNum(fr.layer_z)
    /\ IsEvenNum(AnchorY) = IsEvenNum(fr.layer_z)

AttemptCells ==
    {<<AnchorX + dx, AnchorY + dy>> :
        dx \in 0 .. CurrentDims[1] - 1, dy \in 0 .. CurrentDims[2] - 1}

AttemptUnoccupied == \A c \in AttemptCells : <<c[1], c[2], fr.layer_z>> \notin occupied_positions

AttemptBrick ==
    [ part_id |-> CurrentPart.part_num, position |-> <<AnchorX, AnchorY, fr.layer_z>>,
      rotation |-> CurrentRotation, color_id |-> fr.color_id, is_verified |-> TRUE ]

Committed == placed_bricks' # placed_bricks

\* C8 (as claimed): a placement attempt commits iff none of the footprint
\* cells is already occupied.
C8_OriginalStep == PlacementAttempt => (Committed <=> AttemptUnoccupied)

C8_Original == [][C8_OriginalStep]_vars

\* C8 (amended): a placement attempt commits iff the footprint is unoccupied
\* and lies within the remaining voxels of the group; a commit marks all
\* footprint cells and appends the brick to placed_bricks and to its layer's
\* list in the same step; a rejection changes none of the three.
C8_Step ==
    PlacementAttempt =>
        /\ Committed <=> (AttemptUnoccupied /\ AttemptCells \subseteq fr.remaining)
        /\ Committed =>
              /\ occupied_positions' = occupied_positions \cup
                    {<<c[1], c[2], fr.layer_z>> : c \in AttemptCells}
              /\ placed_bricks' = Append(placed_bricks, AttemptBrick)
              /\ DOMAIN layer_bricks' = DOMAIN layer_bricks \cup {fr.layer_z}
              /\ \A z \in DOMAIN layer_bricks' :
                    layer_bricks'[z] =
                        IF z # fr.layer_z THEN layer_bricks[z]
                        ELSE IF z \in DOMAIN layer_bricks
                             THEN Append(layer_bricks[z], AttemptBrick)
                             ELSE <<AttemptBrick>>
        /\ ~Committed => UNCHANGED << occupied_positions, placed_bricks, layer_bricks >>

C8_TryPlace == [][C8_Step]_vars

C8_Witness ==
    /\ pc = "done"
    /\ fr.pi >= 2
    /\ CandidateAvailable(fr.discovered_parts[1])
    /\ Len(placed_bricks) = 2
    /\ \E z \in DOMAIN layer_bricks : Len(layer_bricks[z]) = 2

\* C9: a voxel with a non-integer coordinate or an empty color makes
\* process_voxels raise an input error; no manifest is returned.
C9_RejectsMalformed ==
    (pc = "done" /\ \E i \in 1 .. Len(voxel_data) : Malformed(voxel_data[i]))
        => result.kind = "error"

\* C10: process_voxels on the empty list returns the empty manifest
\* (total_bricks 0, no bricks, no layers, no inventory) without a port call.
C10_EmptyManifest ==
    (pc = "done" /\ voxel_data = << >>) =>
        /\ result = [ kind |-> "manifest", error |-> "", total_bricks |-> 0,
                      bricks |-> << >>, layers |-> << >>, inventory |-> << >> ]
        /\ port_calls = NoCalls

C10_Witness ==
    /\ pc = "done"
    /\ voxel_data = << >>
    /\ Len(returned) = 2
    /\ returned[1].result.total_bricks > 0
    /\ result.kind = "manifest"

\* C11: process_voxels on a non-empty voxel list returns a manifest with
\* total_bricks > 0, wherever the voxels lie.
C11_SomeBrick ==
    (pc = "done" /\ voxel_data # << >>) =>
        /\ result.kind = "manifest"
        /\ result.total_bricks > 0

\* the minimum corner of the input voxels and their layer
InputCorner ==
    << Min({voxel_data[i].x.v : i \in 1 .. Len(voxel_data)}),
       Min({voxel_data[i].y.v : i \in 1 .. Len(voxel_data)}),
       voxel_data[1].z.v >>

\* every verify call of the run reported the candidate available
AllAvailable == \A k \in DOMAIN avail : avail[k] = "yes"

OneBlockAtCorner ==
    /\ result.kind = "manifest"
    /\ result.total_bricks = 1
    /\ Len(result.bricks) = 1
    /\ result.bricks[1].position = InputCorner
    /\ result.bricks[1].rotation = 0

\* C12 (as claimed): a filled w x h rectangle with a single available w x h
\* candidate yields exactly one block, at the rectangle's minimum corner,
\* with rotation 0.
C12_Original ==
    (pc = "done" /\ voxel_data # << >> /\ AllAvailable) => OneBlockAtCorner

\* C12 (amended): the same, for a rectangle whose minimum corner has the
\* parity of its layer (x and y even on an even layer, odd on an odd layer).
C12_SingleBlock ==
    ( /\ pc = "done"
      /\ voxel_data # << >>
      /\ AllAvailable
      /\ IsEvenNum(InputCorner[1]) = IsEvenNum(InputCorner[3])
      /\ IsEvenNum(InputCorner[2]) = IsEvenNum(InputCorner[3]) )
        => OneBlockAtCorner

C12_Witness ==
    /\ pc = "done"
    /\ ~test_mode
    /\ Len(voxel_data) = 2
    /\ AllAvailable
    /\ port_calls.fetch >= 1
    /\ InputCorner = <<-1, -1, 1>>
    /\ OneBlockAtCorner

\* cells a and b share a face
Adjacent6(a, b) ==
    LET dx == IF a[1] >= b[1] THEN a[1] - b[1] ELSE b[1] - a[1]
        dy == IF a[2] >= b[2] THEN a[2] - b[2] ELSE b[2] - a[2]
        dz == IF a[3] >= b[3] THEN a[3] - b[3] ELSE b[3] - a[3]
    IN  dx + dy + dz = 1

\* the cells of `cells` joined to `from` by a path of at most k face-to-face
\* steps inside `cells`
RECURSIVE WithinSteps(_, _, _)
WithinSteps(from, cells, k) ==
    IF k = 0 THEN from
    ELSE LET prev == WithinSteps(from, cells, k - 1) IN
         prev \cup {c \in cells : \E n \in prev : Adjacent6(c, n)}

OccupiedGround == {c \in occupied_positions : \A d \in occupied_positions : c[3] <= d[3]}

Supported ==
    WithinSteps(OccupiedGround, occupied_positions, Cardinality(occupied_positions))

Floating == occupied_positions \ Supported

Platform == {<<x, y, 0>> : x \in 0 .. 1, y \in 0 .. 1}

\* C13: the clusters reported by the connectivity audit partition exactly the
\* occupied cells that no 6-neighbour path over occupied cells joins to an
\* occupied cell of minimum z, each cluster being a maximal 6-connected set;
\* a 2x2 platform at z=0 with one isolated cell at z=3 gives one cluster
\* holding that cell.
C13_Connectivity ==
    audit.kind \in {"audit", "rules"} =>
        /\ UNION {k.voxels : k \in audit.clusters} = Floating
        /\ \A k \in audit.clusters :
              /\ k.voxels # {}
              /\ \A c \in k.voxels :
                    WithinSteps({c}, Floating, Cardinality(Floating)) = k.voxels
        /\ \A k1, k2 \in audit.clusters : k1 # k2 => k1.voxels \cap k2.voxels = {}
        /\ \A c \in occupied_positions :
              (c[3] = 3 /\ occupied_positions = Platform \cup {c})
                  => {k.voxels : k \in audit.clusters} = {{c}}
                     /\ Cardinality(audit.clusters) = 1

C13_Witness ==
    /\ audit.kind = "audit"
    /\ occupied_positions = Platform \cup {<<1, 0, 3>>}
    /\ Cardinality(audit.clusters) = 1
    /\ \E k \in audit.clusters : k.voxels = {<<1, 0, 3>>}

WorldBrickCells(b) == WorldCells(b.position, b.dimensions)

\* seam cells of layer N: cells of a block on layer N with an in-layer
\* neighbour outside that block
SeamCellsOf(N) ==
    UNION { {c \in WorldBrickCells(placed_bricks[i]) :
                \E d \in {<<1, 0>>, <<-1, 0>>, <<0, 1>>, <<0, -1>>} :
                    <<c[1] + d[1], c[2] + d[2], c[3]>> \notin WorldBrickCells(placed_bricks[i])} :
            i \in {j \in 1 .. Len(placed_bricks) : placed_bricks[j].position[3] = N} }

AllBrickCells == UNION {WorldBrickCells(placed_bricks[i]) : i \in 1 .. Len(placed_bricks)}

C14_SeamsCovered ==
    audit.kind = "rules" =>
        \A N \in 0 .. audit.max_layer :
            \A c \in SeamCellsOf(N) : <<c[1], c[2], N + 1>> \in AllBrickCells

C14_NoOverwrite ==
    /\ \A i, j \in 1 .. Len(placed_bricks) :
          i < j => WorldBrickCells(placed_bricks[i]) \cap WorldBrickCells(placed_bricks[j]) = {}
    /\ occupied_positions = AllBrickCells

C14_FillerStep ==
    audit'.kind = "rules" =>
        /\ Len(placed_bricks') >= Len(placed_bricks)
        /\ SubSeq(placed_bricks', 1, Len(placed_bricks)) = placed_bricks
        /\ \A i \in Len(placed_bricks) + 1 .. Len(placed_bricks') :
              /\ placed_bricks'[i].is_ai_filled
              /\ placed_bricks'[i].dimensions = <<1, 1, 1>>
              /\ placed_bricks'[i].position \notin occupied_positions

\* C14: once the engineering rules have run, every seam cell of every
\* audited layer N has the cell above it occupied by a block; the blocks
\* added are unit fillers placed on free cells, the earlier blocks are kept
\* and no two blocks share a cell.
C14_Interlock == [](C14_SeamsCovered /\ C14_NoOverwrite) /\ [][C14_FillerStep]_vars

C14_Witness ==
    /\ audit.kind = "rules"
    /\ audit.max_layer = 1
    /\ \E i, j \in 1 .. Len(placed_bricks) :
          /\ ~placed_bricks[i].is_ai_filled /\ placed_bricks[i].position[3] = 0
          /\ ~placed_bricks[j].is_ai_filled /\ placed_bricks[j].position[3] = 1
          /\ placed_bricks[i].position[1] = placed_bricks[j].position[1]
          /\ placed_bricks[i].position[2] = placed_bricks[j].position[2]
          /\ placed_bricks[i].dimensions = <<2, 1, 1>>
    /\ \E i \in 1 .. Len(placed_bricks) :
          placed_bricks[i].is_ai_filled /\ placed_bricks[i].position[3] = 1

RECURSIVE SumQuantity(_)
SumQuantity(inventory) ==
    IF inventory = << >> THEN 0
    ELSE Head(inventory).quantity + SumQuantity(Tail(inventory))

\* the blocks of the manifest m with part id (as one string) and color id
BlocksWith(m, part_id, color_id) ==
    {k \in 1 .. Len(m.bricks) :
        m.bricks[k].part_id = <<part_id>> /\ m.bricks[k].color_id = color_id}

\* C15: in a manifest, total_bricks is the number of bricks, layers[z] is the
\* number of bricks at height z, and the inventory has one entry per distinct
\* (part_id, color_id) of the bricks, its quantity being their number, the
\* quantities summing to total_bricks.
C15_Aggregation ==
    (pc = "done" /\ result.kind = "manifest") =>
        /\ result.total_bricks = Len(result.bricks)
        /\ DOMAIN result.layers = {result.bricks[k].position[3] : k \in 1 .. Len(result.bricks)}
        /\ \A z \in DOMAIN result.layers :
              result.layers[z] =
                  Cardinality({k \in 1 .. Len(result.bricks) : result.bricks[k].position[3] = z})
        /\ SumQuantity(result.inventory) = result.total_bricks
        /\ \A i \in 1 .. Len(result.inventory) :
              /\ result.inventory[i].quantity >= 1
              /\ result.inventory[i].quantity =
                    Cardinality(BlocksWith(result, result.inventory[i].part_id,
                                           result.inventory[i].color_id))
        /\ \A k \in 1 .. Len(result.bricks) :
              Cardinality({i \in 1 .. Len(result.inventory) :
                              k \in BlocksWith(result, result.inventory[i].part_id,
                                               result.inventory[i].color_id)}) = 1

\* the deltas recorded so far for a thread, in recording order
RECURSIVE RecordedFor(_, _)
RecordedFor(log, thread_id) ==
    IF log = << >> THEN << >>
    ELSE IF Head(log).thread_id = thread_id
         THEN <<Head(log).delta>> \o RecordedFor(Tail(log), thread_id)
         ELSE RecordedFor(Tail(log), thread_id)

CountsSum(counts) ==
    LET RECURSIVE Sum(_)
        Sum(S) == IF S = {} THEN 0
                  ELSE LET a == CHOOSE x \in S : TRUE IN counts[a] + Sum(S \ {a})
    IN  Sum(DOMAIN counts)

\* C16 (as claimed): the timeline returned for a thread is exactly the
\* deltas recorded for that thread, in order; total_deltas is their number
\* and action_counts sums to it.
C16_OriginalStep ==
    timeline' # timeline =>
        LET own == RecordedFor(recorded, timeline'.thread_id) IN
        /\ timeline'.deltas = own
        /\ timeline'.total_deltas = Len(own)
        /\ CountsSum(timeline'.action_counts) = timeline'.total_deltas

C16_Original == [][C16_OriginalStep]_vars

\* a model_switch entry inserted by get_interactive_instructions
IsMarker(d) == d.action = "model_switch" /\ "description" \in DOMAIN d

\* the recorded deltas before which a marker is due: a model name is set and
\* differs from the last model name set before
MarkersDue(own) ==
    {i \in 1 .. Len(own) :
        /\ DictGet(own[i], "model_switch") # None
        /\ \E j \in 1 .. i - 1 :
              /\ DictGet(own[j], "model_switch") \notin {None, DictGet(own[i], "model_switch")}
              /\ \A k \in j + 1 .. i - 1 : DictGet(own[k], "model_switch") = None}

\* C16 (amended): the timeline returned for a thread holds exactly the deltas
\* recorded for that thread, in order, and none of another thread, plus one
\* inserted model_switch marker before each recorded delta whose model name
\* differs from the last one set; total_deltas counts both, action_counts
\* sums to total_deltas, and total_deltas is the number recorded when no
\* marker is due.
C16_Step ==
    timeline' # timeline =>
        LET own == RecordedFor(recorded, timeline'.thread_id)
            kept == SelectSeq(timeline'.deltas, LAMBDA d : ~IsMarker(d))
        IN  /\ kept = own
            /\ timeline'.total_deltas = Len(timeline'.deltas)
            /\ timeline'.total_deltas = Len(own) + Cardinality(MarkersDue(own))
            /\ CountsSum(timeline'.action_counts) = timeline'.total_deltas
            /\ \A i \in 1 .. Len(timeline'.deltas) :
                  IsMarker(timeline'.deltas[i]) =>
                      /\ i < Len(timeline'.deltas)
                      /\ ~IsMarker(timeline'.deltas[i + 1])
                      /\ timeline'.deltas[i + 1].timestamp = timeline'.deltas[i].timestamp

C16_Timeline == [][C16_Step]_vars

C16_Witness ==
    /\ timeline.thread_id = "thread_1"
    /\ timeline.total_deltas = 3
    /\ Len(RecordedFor(recorded, "thread_1")) = 2
    /\ Len(RecordedFor(recorded, "thread_2")) = 1
    /\ \E i \in 1 .. Len(timeline.deltas) : IsMarker(timeline.deltas[i])

\* C17: for every finite voxel input and every behaviour of the port,
\* process_voxels eventually terminates, and it does so by returning a
\* manifest or by raising an input error.
InputError ==
    /\ result.kind = "error"
    /\ \E i \in 1 .. Len(voxel_data) :
          IntRaises(voxel_data[i].x) \/ IntRaises(voxel_data[i].y)
              \/ IntRaises(voxel_data[i].z)

C17_Terminates == <>(pc = "done" /\ (result.kind = "manifest" \/ InputError))

\* C17, the part about termination alone: the call reaches its end however
\* it ends
C17_Halts == <>(pc = "done")

\* C18: during one run verify_part_availability is called at most once for
\* each (part id, color id) pair.
C18_VerifyOnce ==
    \A k \in DOMAIN port_calls.verify : port_calls.verify[k] <= 1

\* C19: when every call of the port fails, the run is not aborted: the
\* packer works from the built-in candidate list (4x2, 2x2, 2x1, 1x1) and
\* process_voxels returns a manifest.
UsedFallback ==
    voxel_data # << >> => fr.discovered_parts = _get_fallback_parts

C19_Unreachable ==
    (pc = "done" /\ port_mode = "down") =>
        (result.kind = "manifest" /\ UsedFallback)

\* C19 with get_closest_lego_color still answering while fetch_parts and
\* verify_part_availability fail
C19_SearchDown ==
    (pc = "done" /\ port_mode = "search_down") =>
        (result.kind = "manifest" /\ UsedFallback)

\* C20: the full rotated footprint of every committed block lies within the
\* input voxels of the block's own layer and own color group: each cell it
\* covers is an input voxel, has the color the block was resolved from, and
\* is covered by no block committed earlier.
InputCells == {InputCell(voxel_data[i]) : i \in 1 .. Len(voxel_data)}

\* the color of an input cell: the last voxel of the list at that cell
InputHex(cell) ==
    LET last == CHOOSE i \in 1 .. Len(voxel_data) :
                    /\ InputCell(voxel_data[i]) = cell
                    /\ \A j \in 1 .. Len(voxel_data) :
                          InputCell(voxel_data[j]) = cell => j <= i
    IN  voxel_data[last].hex_color

C20_Footprint ==
    \A k \in 1 .. Len(placed_bricks) :
        LET b == placed_bricks[k] IN
        \E hex \in Colors :
            /\ b.color_id = get_closest_lego_color(hex)
            /\ \A cell \in BrickCells(b) :
                  /\ cell \in InputCells
                  /\ InputHex(cell) = hex
                  /\ \A j \in 1 .. k - 1 : cell \notin BrickCells(placed_bricks[j])

C20_Witness ==
    /\ pc = "done"
    /\ Len(voxel_data) = 2
    /\ \E k \in 1 .. Len(placed_bricks) :
          /\ Cardinality(BrickCells(placed_bricks[k])) = 2
          /\ placed_bricks[k].rotation = 90

\* C21: layers are packed in non-decreasing z order: no block is committed
\* on a layer below the layer of a block committed before it, and the
\* blocks of the manifest are listed in non-decreasing z.
NonDecreasingZ(bricks) ==
    \A i, j \in 1 .. Len(bricks) :
        i < j => bricks[i].position[3] <= bricks[j].position[3]

C21_LayerOrder ==
    /\ NonDecreasingZ(placed_bricks)
    /\ result.kind = "manifest" => NonDecreasingZ(result.bricks)

C21_Witness ==
    /\ pc = "done"
    /\ result.kind = "manifest"
    /\ Len(result.bricks) = 2
    /\ result.bricks[1].position[3] < result.bricks[2].position[3]

\* C22: every call of process_voxels starts from an empty store: when a
\* call on a builder that was used before returns, the blocks of its
\* manifest lie on cells of its own input and do not overlap, the occupied
\* cells are exactly the cells of those blocks, and the layer counts and
\* inventory quantities count those blocks only.
C22_FreshStore ==
    (pc = "done" /\ result.kind = "manifest") =>
        /\ result.bricks = placed_bricks
        /\ \A k \in 1 .. Len(result.bricks) : BrickCells(result.bricks[k]) \subseteq InputCells
        /\ \A i, j \in 1 .. Len(result.bricks) :
              i < j => BrickCells(result.bricks[i]) \cap BrickCells(result.bricks[j]) = {}
        /\ occupied_positions = UNION {BrickCells(result.bricks[k]) : k \in 1 .. Len(result.bricks)}
        /\ result.total_bricks = Len(result.bricks)
        /\ \A z \in DOMAIN result.layers :
              result.layers[z] =
                  Cardinality({k \in 1 .. Len(result.bricks) : result.bricks[k].position[3] = z})
        /\ SumQuantity(result.inventory) = Len(result.bricks)

C22_Witness ==
    /\ pc = "done"
    /\ Len(returned) = 2
    /\ returned[1].result.total_bricks = 2
    /\ returned[2].result.kind = "manifest"
    /\ returned[2].input = returned[1].input
    /\ occupied_positions # {}

\* C23: within one run the store only grows: no step of a run takes a cell
\* out of occupied_positions or a block out of placed_bricks, and a placed
\* block never changes (a step that starts a run takes a request off
\* pending; every other step belongs to the run in progress).
C23_Step ==
    pending' = pending =>
        /\ occupied_positions \subseteq occupied_positions'
        /\ Len(placed_bricks) <= Len(placed_bricks')
        /\ \A k \in 1 .. Len(placed_bricks) : placed_bricks'[k] = placed_bricks[k]

C23_Monotone == [][C23_Step]_vars

C23_Witness ==
    /\ pc = "done"
    /\ Len(returned) = 2
    /\ Len(placed_bricks) = 2
    /\ Cardinality(occupied_positions) = 2

\* the model_switch deltas recorded for thread t, in order
SwitchesOf(t) ==
    SelectSeq(recorded, LAMBDA r : r.thread_id = t /\ r.delta.action = "model_switch")

\* C24: when add_object_to_world has recorded gemini-3-pro and then
\* gemini-3-flash for a thread, get_interactive_instructions of the thread
\* has a model_switch entry from gemini-3-pro to gemini-3-flash.
C24_SwitchEntry ==
    \A t \in Threads :
        (\E i, j \in 1 .. Len(SwitchesOf(t)) :
            /\ i < j
            /\ SwitchesOf(t)[i].delta.to_model = "gemini-3-pro"
            /\ SwitchesOf(t)[j].delta.to_model = "gemini-3-flash")
        => \E k \in 1 .. Len(get_interactive_instructions(t)) :
              LET e == get_interactive_instructions(t)[k] IN
              /\ e.action = "model_switch"
              /\ e.from_model = "gemini-3-pro"
              /\ e.to_model = "gemini-3-flash"

\* C30: every recorded scene delta carries the timestamp of its index in
\* the global log (counted from 0), so timestamps are unique and strictly
\* increasing within each thread; no two add_brick deltas share a
\* threejs_object_id; the global log has as many entries as the per-thread
\* logs together.
RECURSIVE ThreadLogSizes(_)
ThreadLogSizes(ts) ==
    IF ts = {} THEN 0
    ELSE LET t == CHOOSE u \in ts : TRUE IN
         Len(thread_deltas[t]) + ThreadLogSizes(ts \ {t})

C30_Timestamps ==
    /\ \A i \in 1 .. Len(scene_deltas) : scene_deltas[i].timestamp = i - 1
    /\ \A t \in DOMAIN thread_deltas :
          \A i, j \in 1 .. Len(thread_deltas[t]) :
              i < j => thread_deltas[t][i].timestamp < thread_deltas[t][j].timestamp
    /\ \A i, j \in 1 .. Len(scene_deltas) :
          (i < j /\ scene_deltas[i].action = "add_brick"
                 /\ scene_deltas[j].action = "add_brick")
              => scene_deltas[i].threejs_object_id # scene_deltas[j].threejs_object_id
    /\ Len(scene_deltas) = ThreadLogSizes(DOMAIN thread_deltas)

C30_Witness ==
    /\ Cardinality(DOMAIN thread_deltas) = 2
    /\ Cardinality({i \in 1 .. Len(scene_deltas) : scene_deltas[i].action = "add_brick"}) >= 2
    /\ \E i \in 1 .. Len(scene_deltas) : scene_deltas[i].action = "step_marker"
    /\ \E t \in Threads : CallAt(t) = "bulk_tools"
    /\ \E t \in Threads : CallAt(t) = "architectural_tools"

\* the blocks of a manifest as a set
BlockSet(m) ==
    { [part_id |-> m.bricks[k].part_id, position |-> m.bricks[k].position,
       rotation |-> m.bricks[k].rotation, color_id |-> m.bricks[k].color_id] :
        k \in 1 .. Len(m.bricks) }

\* C25: the set of blocks of the manifest does not depend on the order of
\* the voxels in the input: two conversions of the same voxels listed in
\* two orders, against the same port, return the same set of blocks.
C25_OrderIndependent ==
    Len(returned) = 2 => BlockSet(returned[1].result) = BlockSet(returned[2].result)

\* C25 for inputs that name no cell twice
DistinctCells(d) ==
    \A i, j \in 1 .. Len(d) : InputCell(d[i]) = InputCell(d[j]) => i = j

C25_DistinctCells ==
    (Len(returned) = 2 /\ DistinctCells(returned[1].input))
        => BlockSet(returned[1].result) = BlockSet(returned[2].result)

\* C26: the candidate list a color group is packed with was obtained from
\* the port for the group's own color id: unless it is the built-in list,
\* each of its candidates was answered available for that color id.
C26_OwnColor ==
    (pc \in {"verify", "scan"} /\ fr.discovered_parts # _get_fallback_parts) =>
        \A i \in 1 .. Len(fr.discovered_parts) :
            LET k == <<fr.discovered_parts[i].part_num, fr.color_id>> IN
            k \in DOMAIN avail /\ avail[k] = "yes"

\* C27: when two process_voxels calls on one builder are interleaved at
\* their awaits, each returned manifest holds the blocks of its own input
\* only (every block lies on cells of the input the manifest was returned
\* for), and no call loses a block it placed (a call that starts while the
\* other one is under way leaves the placed blocks in place).
CellsOf(d) == {InputCell(d[i]) : i \in 1 .. Len(d)}

C27_OwnBlocks ==
    \A i \in 1 .. Len(returned) :
        returned[i].result.kind = "manifest" =>
            \A k \in 1 .. Len(returned[i].result.bricks) :
                BrickCells(returned[i].result.bricks[k]) \subseteq CellsOf(returned[i].input)

C27_NoLoss ==
    (pending' # pending /\ suspended.pc \in AwaitPoints) =>
        \A k \in 1 .. Len(placed_bricks) :
            k <= Len(placed_bricks') /\ placed_bricks'[k] = placed_bricks[k]

C27_Interleaved == []C27_OwnBlocks /\ [][C27_NoLoss]_vars

\* C28: the port's answers being the same throughout a run, every placed
\* block has rotation 0 or 90 (the 180 and 270 passes scan the footprints of
\* the 0 and 90 passes again and place nothing), and a block of a square
\* part has rotation 0.
IsSquare(part_id) == StudsOf(part_id)[1] = StudsOf(part_id)[2]

C28_QuarterTurns ==
    \A k \in 1 .. Len(placed_bricks) :
        /\ placed_bricks[k].rotation \in {0, 90}
        /\ IsSquare(placed_bricks[k].part_id) => placed_bricks[k].rotation = 0

\* a 270 pass of a non-square part scans its last anchor in a run that has
\* already placed a block of a square part
C28_Witness ==
    /\ pc = "scan"
    /\ CurrentRotation = 270
    /\ ~IsSquare(CurrentPart.part_num)
    /\ fr.si = Len(fr.sorted_voxels)
    /\ \E k \in 1 .. Len(placed_bricks) : IsSquare(placed_bricks[k].part_id)

\* C29: whatever part id the candidates carry (with an underscore or not,
\* or empty) and whatever the color id, _generate_manifest succeeds once
\* blocks are placed, and each inventory entry carries the part_id and the
\* color_id of as many blocks of the manifest as its quantity says.
C29_Succeeds == (pc = "done" /\ placed_bricks # << >>) => result.kind = "manifest"

C29_OwnIds ==
    (pc = "done" /\ result.kind = "manifest") =>
        \A i \in 1 .. Len(result.inventory) :
            \E counted \in SUBSET (1 .. Len(result.bricks)) :
                /\ Cardinality(counted) = result.inventory[i].quantity
                /\ \A k \in counted :
                      /\ result.bricks[k].part_id = <<result.inventory[i].part_id>>
                      /\ result.bricks[k].color_id = result.inventory[i].color_id

C29_AnyPartId == C29_Succeeds /\ C29_OwnIds

====
